---- MODULE Spec2Model ----
(***************************************************************************)
(* Model of the tuple algebra (math/tuple: tuple, vector, point, color)    *)
(* and of the canvas (world/canvas) of the ray tracer.                     *)
(*                                                                         *)
(* float64 values are modelled as extended rationals: a finite value is a  *)
(* fraction n/d in lowest terms, and the IEEE-754 special values +Inf,     *)
(* -Inf and NaN are kept apart.  Rounding of finite results and the sign   *)
(* of zero are not modelled.  Objects live in a heap of three-component    *)
(* cells; a handle is a typed pointer into that heap, so that two handles  *)
(* of different types may point at the same cell, as the unsafe pointer    *)
(* conversions of the source allow.                                        *)
(***************************************************************************)
EXTENDS Integers, Sequences, FiniteSets, TLC

VARIABLES heap, refs, canvases, out, last, fuel

vars == <<heap, refs, canvases, out, last, fuel>>

----------------------------------------------------------------------------
(* Bounds of the model.                                                    *)

\* largest number of three-component cells allocated by the constructors
MaxObjs == 3
\* largest number of calls in one behaviour of the vectors and points
MaxCalls == 4
\* largest number of calls in one behaviour of the colors
MaxColorCalls == 4
\* largest number of calls in one behaviour of the canvas
MaxCanvasCalls == 3
\* largest numerator and denominator of an operand of an arithmetic call
MaxAbs == 1000

----------------------------------------------------------------------------
(* float64                                                                 *)

Abs(i) == IF i < 0 THEN -i ELSE i

Sgn(i) == IF i < 0 THEN -1 ELSE IF i > 0 THEN 1 ELSE 0

RECURSIVE GCD(_, _)
GCD(a, b) == IF b = 0 THEN a ELSE GCD(b, a % b)

NaN == [k |-> "nan", n |-> 0, d |-> 0]

Inf(sign) == [k |-> "inf", n |-> sign, d |-> 0]

\* the finite value n/d (d # 0), in lowest terms with a positive denominator
Fin(n, d) ==
    LET g == GCD(Abs(n), Abs(d))
    IN  [k |-> "fin", n |-> Sgn(d) * (n \div g), d |-> Abs(d) \div g]

F(i) == Fin(i, 1)

IsNaN(a) == a.k = "nan"

IsInf(a) == a.k = "inf"

IsFin(a) == a.k = "fin"

\* a + b on float64
FAdd(a, b) ==
    IF IsNaN(a) \/ IsNaN(b) THEN NaN
    ELSE IF IsInf(a) /\ IsInf(b) THEN (IF a.n = b.n THEN a ELSE NaN)
    ELSE IF IsInf(a) THEN a
    ELSE IF IsInf(b) THEN b
    ELSE LET g == GCD(a.d, b.d)
         IN  Fin(a.n * (b.d \div g) + b.n * (a.d \div g), (a.d \div g) * b.d)

\* a - b on float64
FSub(a, b) ==
    IF IsNaN(a) \/ IsNaN(b) THEN NaN
    ELSE IF IsInf(a) /\ IsInf(b) THEN (IF a.n # b.n THEN a ELSE NaN)
    ELSE IF IsInf(a) THEN a
    ELSE IF IsInf(b) THEN Inf(-b.n)
    ELSE LET g == GCD(a.d, b.d)
         IN  Fin(a.n * (b.d \div g) - b.n * (a.d \div g), (a.d \div g) * b.d)

\* -a on float64
FNeg(a) ==
    IF IsNaN(a) THEN NaN
    ELSE IF IsInf(a) THEN Inf(-a.n)
    ELSE Fin(-a.n, a.d)

\* a * b on float64
FMul(a, b) ==
    IF IsNaN(a) \/ IsNaN(b) THEN NaN
    ELSE IF IsInf(a) \/ IsInf(b)
         THEN (IF a.n = 0 \/ b.n = 0 THEN NaN ELSE Inf(Sgn(a.n) * Sgn(b.n)))
    ELSE Fin(a.n * b.n, a.d * b.d)

\* a / b on float64: a division by zero is no fault, it gives Inf or NaN
FDiv(a, b) ==
    IF IsNaN(a) \/ IsNaN(b) THEN NaN
    ELSE IF IsInf(a) /\ IsInf(b) THEN NaN
    ELSE IF IsInf(a) THEN (IF b.n < 0 THEN Inf(-a.n) ELSE a)
    ELSE IF IsInf(b) THEN F(0)
    ELSE IF b.n = 0 THEN (IF a.n = 0 THEN NaN ELSE Inf(Sgn(a.n)))
    ELSE Fin(a.n * b.d, a.d * b.n)

\* a < b on float64: every comparison with NaN is false
FLt(a, b) ==
    IF IsNaN(a) \/ IsNaN(b) THEN FALSE
    ELSE IF IsInf(a) THEN a.n < 0 /\ ~(IsInf(b) /\ b.n < 0)
    ELSE IF IsInf(b) THEN b.n > 0
    ELSE a.n * b.d < b.n * a.d

\* the largest k in lo..hi with k * k <= m
RECURSIVE ISqrt(_, _, _)
ISqrt(m, lo, hi) ==
    IF lo >= hi THEN lo
    ELSE LET mid == (lo + hi + 1) \div 2
         IN  IF mid * mid <= m THEN ISqrt(m, mid, hi) ELSE ISqrt(m, lo, mid - 1)

\* denominator of the grid to which an inexact square root is rounded
SqrtDen == 100

\* math.Sqrt: exact where the root is rational, else rounded to the grid
FSqrt(a) ==
    IF IsNaN(a) THEN NaN
    ELSE IF IsInf(a) THEN (IF a.n > 0 THEN a ELSE NaN)
    ELSE IF a.n < 0 THEN NaN
    ELSE LET rn == ISqrt(a.n, 0, 46340)
             rd == ISqrt(a.d, 0, 46340)
         IN  IF rn * rn = a.n /\ rd * rd = a.d THEN Fin(rn, rd)
             ELSE LET m1 == (a.n \div a.d) * SqrtDen
                             + ((a.n % a.d) * SqrtDen) \div a.d
                      r1 == ((a.n % a.d) * SqrtDen) % a.d
                      \* m is the integer part of a * SqrtDen * SqrtDen
                      m  == m1 * SqrtDen + (r1 * SqrtDen) \div a.d
                      r  == ISqrt(m, 0, 46340)
                  IN  IF (r + 1) * (r + 1) - m < m - r * r
                      THEN Fin(r + 1, SqrtDen) ELSE Fin(r, SqrtDen)

\* the threshold of the tests of equality of two float64
Epsilon == Fin(1, 100000)

\* Equals(epsilon)(expected, got): |expected - got| < epsilon
Equals(epsilon, expected, got) ==
    LET diff == FSub(expected, got)
    IN  FLt(IF IsFin(diff) THEN Fin(Abs(diff.n), diff.d) ELSE
            IF IsInf(diff) THEN Inf(1) ELSE NaN,
            epsilon)

----------------------------------------------------------------------------
(* tuple: the storage shared by vector, point and color                    *)

Tuple(x, y, z) == [x |-> x, y |-> y, z |-> z]

tuple_X(t) == t.x

tuple_Y(t) == t.y

tuple_Z(t) == t.z

\* a typed pointer: dyn is the pointer's concrete type (*vector, *point,
\* *color), iface the interface type the caller holds it as
Ref(iface, dyn, addr) == [iface |-> iface, dyn |-> dyn, addr |-> addr]

NoRef == Ref("none", "none", 0)

\* the pointer itself, whatever its type
tuple_ToUnsafePointer(addr) == addr


\* other.X(), other.Y(), other.Z() through an interface value: color has
\* its own accessors, vector and point use those of the embedded tuple
color_X(c) == c.x

color_Y(c) == c.y

color_Z(c) == c.z

color_Red(c) == color_X(c)

color_Green(c) == color_Y(c)

color_Blue(c) == color_Z(c)

X(h, r) == IF r.dyn = "color" THEN color_X(h[r.addr]) ELSE tuple_X(h[r.addr])

Y(h, r) == IF r.dyn = "color" THEN color_Y(h[r.addr]) ELSE tuple_Y(h[r.addr])

Z(h, r) == IF r.dyn = "color" THEN color_Z(h[r.addr]) ELSE tuple_Z(h[r.addr])

\* t.add with the y assignment reading other.X()
tuple_add_mut(h, t, other) ==
    LET h1 == [h  EXCEPT ![t].x = FAdd(h[t].x,  X(h,  other))]
        h2 == [h1 EXCEPT ![t].y = FAdd(h1[t].y, X(h1, other))]
        h3 == [h2 EXCEPT ![t].z = FAdd(h2[t].z, Z(h2, other))]
    IN  [heap |-> h3, ptr |-> t]

\* t.add(other): three assignments in order, each reading other through
\* its pointer at the time of the assignment; returns t
tuple_add(h, t, other) ==
    LET h1 == [h  EXCEPT ![t].x = FAdd(h[t].x,  X(h,  other))]
        h2 == [h1 EXCEPT ![t].y = FAdd(h1[t].y, Y(h1, other))]
        h3 == [h2 EXCEPT ![t].z = FAdd(h2[t].z, Z(h2, other))]
    IN  [heap |-> h3, ptr |-> t]

\* t.sub with the z assignment reading other.Y()
tuple_sub_mut(h, t, other) ==
    LET h1 == [h  EXCEPT ![t].x = FSub(h[t].x,  X(h,  other))]
        h2 == [h1 EXCEPT ![t].y = FSub(h1[t].y, Y(h1, other))]
        h3 == [h2 EXCEPT ![t].z = FSub(h2[t].z, Y(h2, other))]
    IN  [heap |-> h3, ptr |-> t]

\* t.sub(other)
tuple_sub(h, t, other) ==
    LET h1 == [h  EXCEPT ![t].x = FSub(h[t].x,  X(h,  other))]
        h2 == [h1 EXCEPT ![t].y = FSub(h1[t].y, Y(h1, other))]
        h3 == [h2 EXCEPT ![t].z = FSub(h2[t].z, Z(h2, other))]
    IN  [heap |-> h3, ptr |-> t]

----------------------------------------------------------------------------
(* vector                                                                  *)

\* NewVector(x, y, z): a new cell, held as a Vector
NewVector(h, x, y, z) ==
    [heap |-> Append(h, Tuple(x, y, z)),
     res  |-> Ref("Vector", "vector", Len(h) + 1)]

\* W() of a vector returning 1, as the comment in vector.W has it
vector_W_mut(v) == F(1)

vector_W(v) == F(0)

vector_AddVector(h, v, other) ==
    LET r == tuple_add(h, v.addr, other)
    IN  [heap |-> r.heap,
         res  |-> Ref("Vector", "vector", tuple_ToUnsafePointer(r.ptr))]

vector_SubVector(h, v, other) ==
    LET r == tuple_sub(h, v.addr, other)
    IN  [heap |-> r.heap,
         res  |-> Ref("Vector", "vector", tuple_ToUnsafePointer(r.ptr))]

\* Cross with the operands of the second component's subtraction swapped
vector_Cross_mut(h, v, other) ==
    LET c == h[v.addr]
    IN  NewVector(h,
            FSub(FMul(c.y, Z(h, other)), FMul(c.z, Y(h, other))),
            FSub(FMul(c.x, Z(h, other)), FMul(c.z, X(h, other))),
            FSub(FMul(c.x, Y(h, other)), FMul(c.y, X(h, other))))

\* v.Cross(other): value receiver (a copy of *v), result newly allocated
vector_Cross(h, v, other) ==
    LET c == h[v.addr]
    IN  NewVector(h,
            FSub(FMul(c.y, Z(h, other)), FMul(c.z, Y(h, other))),
            FSub(FMul(c.z, X(h, other)), FMul(c.x, Z(h, other))),
            FSub(FMul(c.x, Y(h, other)), FMul(c.y, X(h, other))))

\* Scale returning a new vector and leaving the receiver as it was
vector_Scale_mut(h, v, scalar) ==
    NewVector(h, FMul(h[v.addr].x, scalar), FMul(h[v.addr].y, scalar),
              FMul(h[v.addr].z, scalar))

\* v.Scale(scalar): in place
vector_Scale(h, v, scalar) ==
    LET a  == v.addr
        h1 == [h  EXCEPT ![a].x = FMul(h[a].x,  scalar)]
        h2 == [h1 EXCEPT ![a].y = FMul(h1[a].y, scalar)]
        h3 == [h2 EXCEPT ![a].z = FMul(h2[a].z, scalar)]
    IN  [heap |-> h3, res |-> v]

\* Div leaving the vector as it is when the scalar is zero
vector_Div_mut(h, v, scalar) ==
    LET a  == v.addr
        h1 == [h  EXCEPT ![a].x = FDiv(h[a].x,  scalar)]
        h2 == [h1 EXCEPT ![a].y = FDiv(h1[a].y, scalar)]
        h3 == [h2 EXCEPT ![a].z = FDiv(h2[a].z, scalar)]
    IN  [heap |-> IF scalar = F(0) THEN h ELSE h3, res |-> v]

\* v.Div(scalar): in place, no test of the scalar
vector_Div(h, v, scalar) ==
    LET a  == v.addr
        h1 == [h  EXCEPT ![a].x = FDiv(h[a].x,  scalar)]
        h2 == [h1 EXCEPT ![a].y = FDiv(h1[a].y, scalar)]
        h3 == [h2 EXCEPT ![a].z = FDiv(h2[a].z, scalar)]
    IN  [heap |-> h3, res |-> v]

\* Dot with the second product reading other.X()
vector_Dot_mut(h, v, other) ==
    LET c == h[v.addr]
    IN  FAdd(FAdd(FMul(c.x, X(h, other)), FMul(c.y, X(h, other))),
             FMul(c.z, Z(h, other)))

\* v.Dot(other): value receiver
vector_Dot(h, v, other) ==
    LET c == h[v.addr]
    IN  FAdd(FAdd(FMul(c.x, X(h, other)), FMul(c.y, Y(h, other))),
             FMul(c.z, Z(h, other)))

\* Magnitude without the square root
vector_Magnitude_mut(h, v) ==
    LET c == h[v.addr]
    IN  FAdd(FAdd(FMul(c.x, c.x), FMul(c.y, c.y)), FMul(c.z, c.z))

\* v.Magnitude(): value receiver, Dot of the copy with a pointer to the copy
vector_Magnitude(h, v) ==
    LET c == h[v.addr]
    IN  FSqrt(FAdd(FAdd(FMul(c.x, c.x), FMul(c.y, c.y)), FMul(c.z, c.z)))

\* v.Normalize(): the magnitude is taken first, then v.Div mutates v
vector_Normalize(h, v) == vector_Div(h, v, vector_Magnitude(h, v))

----------------------------------------------------------------------------
(* point                                                                   *)

NewPoint(h, x, y, z) ==
    [heap |-> Append(h, Tuple(x, y, z)),
     res  |-> Ref("Point", "point", Len(h) + 1)]

point_W(p) == F(1)

\* p.SubPoint(other): p's cell is mutated and then handed back as a *vector
point_SubPoint(h, p, other) ==
    LET r == tuple_sub(h, p.addr, other)
    IN  [heap |-> r.heap,
         res  |-> Ref("Vector", "vector", tuple_ToUnsafePointer(r.ptr))]

\* Point - Vector done with add instead of sub
point_SubVector_mut(h, p, other) ==
    LET r == tuple_add(h, p.addr, other)
    IN  [heap |-> r.heap,
         res  |-> Ref("Point", "point", tuple_ToUnsafePointer(r.ptr))]

point_SubVector(h, p, other) ==
    LET r == tuple_sub(h, p.addr, other)
    IN  [heap |-> r.heap,
         res  |-> Ref("Point", "point", tuple_ToUnsafePointer(r.ptr))]

----------------------------------------------------------------------------
(* color                                                                   *)

NewColor(h, red, green, blue) ==
    [heap |-> Append(h, Tuple(red, green, blue)),
     res  |-> Ref("Color", "color", Len(h) + 1)]

White(h) == NewColor(h, F(1), F(1), F(1))

\* Black returning the channels of White
Black_mut(h) == NewColor(h, F(1), F(1), F(1))

Black(h) == NewColor(h, F(0), F(0), F(0))

color_W(c) == F(0)

color_AddColor(h, c, other) ==
    LET r == tuple_add(h, c.addr, other)
    IN  [heap |-> r.heap,
         res  |-> Ref("Color", "color", tuple_ToUnsafePointer(r.ptr))]

\* SubColor storing the difference in the right operand as well
color_SubColor_mut(h, c, other) ==
    LET r == tuple_sub(h, c.addr, other)
    IN  [heap |-> [r.heap EXCEPT ![other.addr] = r.heap[c.addr]],
         res  |-> Ref("Color", "color", tuple_ToUnsafePointer(r.ptr))]

color_SubColor(h, c, other) ==
    LET r == tuple_sub(h, c.addr, other)
    IN  [heap |-> r.heap,
         res  |-> Ref("Color", "color", tuple_ToUnsafePointer(r.ptr))]

\* MulColor with the green assignment reading other.X()
color_MulColor_mut(h, c, other) ==
    LET a  == c.addr
        h1 == [h  EXCEPT ![a].x = FMul(h[a].x,  X(h,  other))]
        h2 == [h1 EXCEPT ![a].y = FMul(h1[a].y, X(h1, other))]
        h3 == [h2 EXCEPT ![a].z = FMul(h2[a].z, Z(h2, other))]
    IN  [heap |-> h3, res |-> c]

color_MulColor(h, c, other) ==
    LET a  == c.addr
        h1 == [h  EXCEPT ![a].x = FMul(h[a].x,  X(h,  other))]
        h2 == [h1 EXCEPT ![a].y = FMul(h1[a].y, Y(h1, other))]
        h3 == [h2 EXCEPT ![a].z = FMul(h2[a].z, Z(h2, other))]
    IN  [heap |-> h3, res |-> c]

color_Scale(h, c, scalar) ==
    LET a  == c.addr
        h1 == [h  EXCEPT ![a].x = FMul(h[a].x,  scalar)]
        h2 == [h1 EXCEPT ![a].y = FMul(h1[a].y, scalar)]
        h3 == [h2 EXCEPT ![a].z = FMul(h2[a].z, scalar)]
    IN  [heap |-> h3, res |-> c]

\* W() through an interface value: the method of the pointer's own type
W(r) ==
    IF r.dyn = "vector" THEN vector_W(r)
    ELSE IF r.dyn = "point" THEN point_W(r)
    ELSE color_W(r)


----------------------------------------------------------------------------
(* number.Interval and the serialization of a color                        *)

MinColor == F(0)

MaxColor == F(255)

Interval(min, max) == [Min |-> min, Max |-> max]

limit == Interval(F(0), F(1))

output == Interval(MinColor, MaxColor)

Clamp(i, number) ==
    IF FLt(number, i.Min) THEN i.Min
    ELSE IF FLt(i.Max, number) THEN i.Max
    ELSE number

ChangeInterval(number, old, new) ==
    FAdd(new.Min,
         FMul(FDiv(FSub(new.Max, new.Min), FSub(old.Max, old.Min)),
              FSub(number, old.Min)))

\* math.Round: to the nearest integer, halves away from zero
Round(a) ==
    IF ~IsFin(a) THEN a
    ELSE F(Sgn(a.n) * ((2 * Abs(a.n) + a.d) \div (2 * a.d)))

\* the platforms whose float64 -> int64 conversion differs on NaN
Archs == {"amd64", "arm64"}

\* int64(f): the integer for an integral finite f; for NaN and the
\* infinities the result depends on the platform ("min" is -2^63,
\* "max" is 2^63-1)
Int64(a, arch) ==
    IF IsFin(a) THEN [k |-> "int", i |-> a.n \div a.d]
    ELSE IF arch = "amd64" THEN [k |-> "min", i |-> 0]
    ELSE IF IsNaN(a) THEN [k |-> "int", i |-> 0]
    ELSE IF a.n > 0 THEN [k |-> "max", i |-> 0]
    ELSE [k |-> "min", i |-> 0]

Digits == <<"0", "1", "2", "3", "4", "5", "6", "7", "8", "9">>

RECURSIVE FmtNat(_)
FmtNat(i) ==
    IF i < 10 THEN <<Digits[i + 1]>>
    ELSE Append(FmtNat(i \div 10), Digits[(i % 10) + 1])

\* the verb %d applied to an integer: its decimal digits
FmtInt(v) ==
    IF v.k = "min"
    THEN <<"-", "9", "2", "2", "3", "3", "7", "2", "0", "3", "6", "8",
           "5", "4", "7", "7", "5", "8", "0", "8">>
    ELSE IF v.k = "max"
    THEN <<"9", "2", "2", "3", "3", "7", "2", "0", "3", "6", "8",
           "5", "4", "7", "7", "5", "8", "0", "7">>
    ELSE IF v.i < 0 THEN <<"-">> \o FmtNat(-v.i)
    ELSE FmtNat(v.i)

Channel(a, arch) ==
    FmtInt(Int64(Round(ChangeInterval(Clamp(limit, a), limit, output)), arch))

\* c.ToPPM(w): value receiver; writes "%d %d %d" to w
color_ToPPM(h, c, w, arch) ==
    LET v == h[c.addr]
    IN  w \o Channel(color_Red(v), arch) \o <<" ">>
          \o Channel(color_Green(v), arch) \o <<" ">>
          \o Channel(color_Blue(v), arch)

----------------------------------------------------------------------------
(* canvas                                                                  *)

\* the fill functions a caller may pass: "black" is the default one,
\* "coord" returns a new color (x, y, 0) for the cell (x, y), "shared" is
\* a closure that returns the one color ref it has captured
FillFunc(id, ref) == [id |-> id, ref |-> ref]

\* the default fill returning one black color for every cell
CallFill_mut(f, h, x, y) ==
    IF f.id = "black"
    THEN (IF x = 0 /\ y = 0 THEN Black(h)
          ELSE [heap |-> h, res |-> Ref("Color", "color", Len(h))])
    ELSE IF f.id = "coord" THEN NewColor(h, F(x), F(y), F(0))
    ELSE [heap |-> h, res |-> f.ref]

\* f(x, y)
CallFill(f, h, x, y) ==
    IF f.id = "black" THEN Black(h)
    ELSE IF f.id = "coord" THEN NewColor(h, F(x), F(y), F(0))
    ELSE [heap |-> h, res |-> f.ref]

canvas_Width(c) == c.width

canvas_Height(c) == c.height

canvas_Contents(c) == c.contents

\* the header functions: "default" is the one of defaultOptions, "mark"
\* returns a fixed string, "size" the number of cells of the canvas
CallHeader(f, c) ==
    IF f = "default"
    THEN <<"P", "3", "\n">> \o FmtNat(c.width) \o <<" ">> \o FmtNat(c.height)
            \o <<"\n">> \o FmtInt(Int64(MaxColor, "amd64")) \o <<"\n">>
    ELSE IF f = "size"
    THEN FmtNat(Len(canvas_Contents(c))) \o <<"\n">>
    ELSE <<"#", "\n">>

NoFill == FillFunc("none", NoRef)

WithFillFunc(f) == [kind |-> "fill", fill |-> f, header |-> "none", sep |-> <<>>]

WithHeader(f) == [kind |-> "header", fill |-> NoFill, header |-> f, sep |-> <<>>]

WithSeparator(s) == [kind |-> "sep", fill |-> NoFill, header |-> "none", sep |-> s]

defaultOptions ==
    << WithFillFunc(FillFunc("black", NoRef)),
       WithHeader("default"),
       WithSeparator(<<"\n">>) >>

\* the loop passing f the coordinates in column-major order
RECURSIVE FillFrom_mut(_, _, _)
FillFrom_mut(f, st, i) ==
    IF i >= Len(st.c.contents) THEN st
    ELSE LET x == i \div st.c.height
             y == i % st.c.height
             r == CallFill(f, st.heap, x, y)
         IN  FillFrom_mut(f,
                      [heap  |-> r.heap,
                       c     |-> [st.c EXCEPT !.contents[i + 1] = r.res],
                       fills |-> Append(st.fills,
                                        [f |-> f, x |-> x, y |-> y,
                                         res |-> r.res])],
                      i + 1)

\* the loop of WithFillFunc from cell i (0-based) on: st holds the heap,
\* the canvas and the log of the calls of the fill functions, each with
\* the function called, its arguments and what it returned
RECURSIVE FillFrom(_, _, _)
FillFrom(f, st, i) ==
    IF i >= Len(st.c.contents) THEN st
    ELSE LET x == i % st.c.width
             y == i \div st.c.width
             r == CallFill(f, st.heap, x, y)
         IN  FillFrom(f,
                      [heap  |-> r.heap,
                       c     |-> [st.c EXCEPT !.contents[i + 1] = r.res],
                       fills |-> Append(st.fills,
                                        [f |-> f, x |-> x, y |-> y,
                                         res |-> r.res])],
                      i + 1)

\* opt(c)
ApplyOption(opt, st) ==
    IF opt.kind = "fill" THEN FillFrom(opt.fill, st, 0)
    ELSE IF opt.kind = "header" THEN [st EXCEPT !.c.header = opt.header]
    ELSE [st EXCEPT !.c.separator = opt.sep]

\* the options applied from the last to the first
RECURSIVE ApplyOptions_mut(_, _)
ApplyOptions_mut(opts, st) ==
    IF opts = <<>> THEN st
    ELSE ApplyOption(Head(opts), ApplyOptions_mut(Tail(opts), st))

\* the loops of New over a list of options, in order
RECURSIVE ApplyOptions(_, _)
ApplyOptions(opts, st) ==
    IF opts = <<>> THEN st
    ELSE ApplyOptions(Tail(opts), ApplyOption(Head(opts), st))

\* New allocating width * width cells
New_mut(h, width, height, opts) ==
    LET c == [width     |-> width,
              height    |-> height,
              header    |-> "none",
              separator |-> <<>>,
              contents  |-> [i \in 1..(width * width) |-> NoRef]]
        st0 == [heap |-> h, c |-> c, fills |-> <<>>]
    IN  ApplyOptions(opts, ApplyOptions(defaultOptions, st0))

\* New(width, height, opts...): the default options, then the caller's
New(h, width, height, opts) ==
    LET c == [width     |-> width,
              height    |-> height,
              header    |-> "none",
              separator |-> <<>>,
              contents  |-> [i \in 1..(height * width) |-> NoRef]]
        st0 == [heap |-> h, c |-> c, fills |-> <<>>]
    IN  ApplyOptions(opts, ApplyOptions(defaultOptions, st0))

\* index with the height as the length of a row
canvas_index_mut(c, x, y) == x + y * c.height

\* c.index(x, y)
canvas_index(c, x, y) == x + y * c.width

\* an index expression on the contents faults when the index is not below
\* the length
InBounds(c, i) == i < Len(c.contents)

\* c.Get(x, y), for an index in bounds; cs is the store of canvases and
\* id the pointer to c
canvas_Get(cs, id, x, y) == cs[id].contents[canvas_index(cs[id], x, y) + 1]

\* c.Set(x, y, item), for an index in bounds: the store after the call and
\* the pointer returned
canvas_Set(cs, id, x, y, item) ==
    [canvases |-> [cs EXCEPT ![id].contents[canvas_index(cs[id], x, y) + 1] = item],
     ret      |-> id]

\* the loop of canvas.ToPPM from cell i (1-based) on
RECURSIVE WriteCells(_, _, _, _, _)
WriteCells(h, c, w, i, arch) ==
    IF i > Len(c.contents) THEN w
    ELSE WriteCells(h, c,
                    color_ToPPM(h, c.contents[i], w, arch) \o c.separator,
                    i + 1, arch)

\* ToPPM writing no separator after the last cell
canvas_ToPPM_mut(h, c, w, arch) ==
    LET o == WriteCells(h, c, w \o CallHeader(c.header, c), 1, arch)
    IN  IF Len(c.contents) > 0
        THEN SubSeq(o, 1, Len(o) - Len(c.separator))
        ELSE o

\* c.ToPPM(w): value receiver; the header, then every cell and separator
canvas_ToPPM(h, c, w, arch) ==
    WriteCells(h, c, w \o CallHeader(c.header, c), 1, arch)


----------------------------------------------------------------------------
(* Inputs of the calls                                                     *)

\* largest width and height of a canvas
MaxDim == 2
\* largest number of canvases constructed
MaxCanvases == 1
\* largest number of options passed to New
MaxOpts == 2
\* largest number of calls in a behaviour of SpecPPM
MaxPPMCalls == 2
\* largest number of calls in a behaviour of SpecTuple
MaxTupleCalls == 4

Inputs ==
    { <<F(1), F(2), F(3)>>, <<F(2), F(3), F(4)>>, <<F(1), F(-2), F(2)>> }

ColorInputs ==
    { <<F(1), Fin(1, 5), Fin(2, 5)>>, <<Fin(-1, 2), F(0), F(1)>> }

Scalars == { F(-1), F(0), F(2), Fin(1, 2) }

\* the channels of the colors serialized: below, at and above the ends of
\* [0, 1], inside it, infinite and NaN
ChannelInputs ==
    { Fin(-1, 2), F(0), Fin(1, 5), Fin(1, 2), Fin(499, 500), F(1), F(2),
      Inf(1), Inf(-1), NaN }

ColorScalars == { F(2), Fin(-1, 2) }

\* the operand's components are within the bound of the model
SmallF(a) == IsFin(a) => Abs(a.n) <= MaxAbs /\ a.d <= MaxAbs

Small(r) ==
    SmallF(heap[r.addr].x) /\ SmallF(heap[r.addr].y) /\ SmallF(heap[r.addr].z)

Vectors == { r \in refs : r.iface = "Vector" }

Points == { r \in refs : r.iface = "Point" }

Colors == { r \in refs : r.iface = "Color" }

OptionInputs ==
    { WithFillFunc(FillFunc("coord", NoRef)),
      WithHeader("mark"),
      WithHeader("size"),
      WithSeparator(<<" ">>),
      WithSeparator(<<";", "\n">>) }
    \cup { WithFillFunc(FillFunc("shared", r)) : r \in Colors }

OptionSeqs ==
    UNION { [1..n -> OptionInputs] : n \in 0..MaxOpts }

----------------------------------------------------------------------------
(* State: heap is the store of three-component cells, refs the pointers    *)
(* the caller holds, canvases the store of canvases, out what the last    *)
(* ToPPM of a canvas wrote, last the record of the last call (with the     *)
(* stores as they were before it), fuel the number of calls still to make. *)

Call(op) ==
    [op |-> op, recv |-> NoRef, arg |-> NoRef, s |-> F(0), res |-> NoRef,
     val |-> F(0), pre |-> heap, cv |-> 0, x |-> 0, y |-> 0, rcv |-> 0,
     fault |-> FALSE, preCv |-> canvases, opts |-> <<>>, fills |-> <<>>,
     preOut |-> out, again |-> FALSE]

Empty ==
    /\ heap = <<>>
    /\ refs = {}
    /\ canvases = <<>>
    /\ out = <<>>
    /\ last = [op |-> "init", recv |-> NoRef, arg |-> NoRef, s |-> F(0),
               res |-> NoRef, val |-> F(0), pre |-> <<>>, cv |-> 0, x |-> 0,
               y |-> 0, rcv |-> 0, fault |-> FALSE, preCv |-> <<>>,
               opts |-> <<>>, fills |-> <<>>,
               preOut |-> <<>>, again |-> FALSE]

Init == Empty /\ fuel = MaxCalls

InitColor == Empty /\ fuel = MaxColorCalls

InitTuple == Empty /\ fuel = MaxTupleCalls

\* the caller holds one color, NewColor(red, green, blue)
InitPPM ==
    \E red \in ChannelInputs, green \in ChannelInputs, blue \in ChannelInputs :
        /\ heap = NewColor(<<>>, red, green, blue).heap
        /\ refs = { NewColor(<<>>, red, green, blue).res }
        /\ canvases = <<>>
        /\ out = <<>>
        /\ last = [op |-> "init", recv |-> NoRef, arg |-> NoRef, s |-> F(0),
                   res |-> NoRef, val |-> F(0), pre |-> <<>>, cv |-> 0, x |-> 0,
                   y |-> 0, rcv |-> 0, fault |-> FALSE, preCv |-> <<>>,
                   opts |-> <<>>, fills |-> <<>>,
                   preOut |-> <<>>, again |-> FALSE]
        /\ fuel = MaxPPMCalls

\* the canvas starts with its caller holding two colors
InitCanvas ==
    /\ heap = << Tuple(F(1), Fin(1, 5), Fin(2, 5)),
                 Tuple(Fin(-1, 2), F(0), F(1)) >>
    /\ refs = { Ref("Color", "color", 1), Ref("Color", "color", 2) }
    /\ canvases = <<>>
    /\ out = <<>>
    /\ last = [op |-> "init", recv |-> NoRef, arg |-> NoRef, s |-> F(0),
               res |-> NoRef, val |-> F(0), pre |-> <<>>, cv |-> 0, x |-> 0,
               y |-> 0, rcv |-> 0, fault |-> FALSE, preCv |-> <<>>,
               opts |-> <<>>, fills |-> <<>>,
               preOut |-> <<>>, again |-> FALSE]
    /\ fuel = MaxCanvasCalls

\* a call that allocates or mutates a cell: r is [heap, res]
Returns(l, r) ==
    /\ fuel > 0
    /\ heap' = r.heap
    /\ refs' = refs \cup {r.res}
    /\ last' = [l EXCEPT !.res = r.res]
    /\ fuel' = fuel - 1
    /\ UNCHANGED <<canvases, out>>

\* a call that only reads and returns the float64 v
Reads(l, v) ==
    /\ fuel > 0
    /\ last' = [l EXCEPT !.val = v]
    /\ fuel' = fuel - 1
    /\ UNCHANGED <<heap, refs, canvases, out>>

CallNewVector ==
    \E t \in Inputs :
        /\ Cardinality(refs) < MaxObjs
        /\ Returns(Call("NewVector"), NewVector(heap, t[1], t[2], t[3]))

CallNewPoint ==
    \E t \in Inputs :
        /\ Cardinality(refs) < MaxObjs
        /\ Returns(Call("NewPoint"), NewPoint(heap, t[1], t[2], t[3]))

CallNewColor ==
    \E t \in ColorInputs :
        /\ Cardinality(refs) < MaxObjs
        /\ Returns(Call("NewColor"), NewColor(heap, t[1], t[2], t[3]))

CallAddVector ==
    \E v \in Vectors, o \in Vectors :
        /\ Small(v) /\ Small(o)
        /\ Returns([Call("AddVector") EXCEPT !.recv = v, !.arg = o],
                   vector_AddVector(heap, v, o))

CallSubVector ==
    \E v \in Vectors, o \in Vectors :
        /\ Small(v) /\ Small(o)
        /\ Returns([Call("SubVector") EXCEPT !.recv = v, !.arg = o],
                   vector_SubVector(heap, v, o))

CallCross ==
    \E v \in Vectors, o \in Vectors :
        /\ Cardinality(refs) < MaxObjs
        /\ Small(v) /\ Small(o)
        /\ Returns([Call("Cross") EXCEPT !.recv = v, !.arg = o],
                   vector_Cross(heap, v, o))

CallScale ==
    \E v \in Vectors, s \in Scalars :
        /\ Small(v)
        /\ Returns([Call("Scale") EXCEPT !.recv = v, !.s = s],
                   vector_Scale(heap, v, s))

CallDiv ==
    \E v \in Vectors, s \in Scalars :
        /\ Small(v)
        /\ Returns([Call("Div") EXCEPT !.recv = v, !.s = s],
                   vector_Div(heap, v, s))

CallDot ==
    \E v \in Vectors, o \in Vectors :
        /\ Small(v) /\ Small(o)
        /\ Reads([Call("Dot") EXCEPT !.recv = v, !.arg = o],
                 vector_Dot(heap, v, o))

CallMagnitude ==
    \E v \in Vectors :
        Small(v) /\ Reads([Call("Magnitude") EXCEPT !.recv = v], vector_Magnitude(heap, v))

CallNormalize ==
    \E v \in Vectors :
        /\ Small(v)
        /\ Returns([Call("Normalize") EXCEPT !.recv = v],
                vector_Normalize(heap, v))

CallSubPoint ==
    \E p \in Points, o \in Points :
        /\ Small(p) /\ Small(o)
        /\ Returns([Call("SubPoint") EXCEPT !.recv = p, !.arg = o],
                   point_SubPoint(heap, p, o))

CallPointSubVector ==
    \E p \in Points, o \in Vectors :
        /\ Small(p) /\ Small(o)
        /\ Returns([Call("PointSubVector") EXCEPT !.recv = p, !.arg = o],
                   point_SubVector(heap, p, o))

CallAddColor ==
    \E c \in Colors, o \in Colors :
        /\ Small(c) /\ Small(o)
        /\ Returns([Call("AddColor") EXCEPT !.recv = c, !.arg = o],
                   color_AddColor(heap, c, o))

CallSubColor ==
    \E c \in Colors, o \in Colors :
        /\ Small(c) /\ Small(o)
        /\ Returns([Call("SubColor") EXCEPT !.recv = c, !.arg = o],
                   color_SubColor(heap, c, o))

CallMulColor ==
    \E c \in Colors, o \in Colors :
        /\ Small(c) /\ Small(o)
        /\ Returns([Call("MulColor") EXCEPT !.recv = c, !.arg = o],
                   color_MulColor(heap, c, o))

CallColorScale ==
    \E c \in Colors, s \in ColorScalars :
        /\ Small(c)
        /\ Returns([Call("ColorScale") EXCEPT !.recv = c, !.s = s],
                color_Scale(heap, c, s))

\* X(), Y(), Z(), W() of any value, Red(), Green(), Blue() of a color
CallAccessor ==
    \E r \in refs, f \in {"X", "Y", "Z", "W", "Red", "Green", "Blue"} :
        /\ f \in {"Red", "Green", "Blue"} => r.dyn = "color"
        /\ Reads([Call(f) EXCEPT !.recv = r],
                 CASE f = "X" -> X(heap, r)
                   [] f = "Y" -> Y(heap, r)
                   [] f = "Z" -> Z(heap, r)
                   [] f = "W" -> W(r)
                   [] f = "Red" -> color_Red(heap[r.addr])
                   [] f = "Green" -> color_Green(heap[r.addr])
                   [] f = "Blue" -> color_Blue(heap[r.addr]))


\* c.ToPPM(w) of a color into an empty writer
CallColorToPPM ==
    \E c \in Colors, arch \in Archs :
        /\ fuel > 0
        /\ out' = color_ToPPM(heap, c, <<>>, arch)
        /\ last' = [Call("ColorToPPM") EXCEPT !.recv = c]
        /\ fuel' = fuel - 1
        /\ UNCHANGED <<heap, refs, canvases>>

\* a call on a canvas: h, rs, cs and o are the stores after the call
CanvasCall(l, h, rs, cs, o) ==
    /\ fuel > 0
    /\ heap' = h
    /\ refs' = rs
    /\ canvases' = cs
    /\ out' = o
    /\ last' = l
    /\ fuel' = fuel - 1

CallNew ==
    \E width \in 0..MaxDim, height \in 0..MaxDim, opts \in OptionSeqs :
        /\ Len(canvases) < MaxCanvases
        /\ LET st == New(heap, width, height, opts)
           IN  CanvasCall([Call("New") EXCEPT !.x = width, !.y = height,
                              !.opts = opts, !.fills = st.fills,
                              !.rcv = Len(canvases) + 1],
                          st.heap, refs, Append(canvases, st.c), out)

\* Set with an index out of the bounds of contents faults and changes
\* nothing; any other index is written, in range or not.  The coordinates
\* passed are those in range and those one past it.
CallSet ==
    \E id \in 1..Len(canvases), item \in Colors :
    \E x \in 0..canvases[id].width, y \in 0..canvases[id].height :
        LET l == [Call("Set") EXCEPT !.cv = id, !.x = x, !.y = y, !.arg = item]
        IN  IF InBounds(canvases[id], canvas_index(canvases[id], x, y))
            THEN LET r == canvas_Set(canvases, id, x, y, item)
                 IN  CanvasCall([l EXCEPT !.rcv = r.ret],
                                heap, refs, r.canvases, out)
            ELSE CanvasCall([l EXCEPT !.fault = TRUE],
                            heap, refs, canvases, out)

CallGet ==
    \E id \in 1..Len(canvases) :
    \E x \in 0..canvases[id].width, y \in 0..canvases[id].height :
        LET l == [Call("Get") EXCEPT !.cv = id, !.x = x, !.y = y]
        IN  IF InBounds(canvases[id], canvas_index(canvases[id], x, y))
            THEN LET r == canvas_Get(canvases, id, x, y)
                 IN  CanvasCall([l EXCEPT !.res = r],
                                heap, refs \cup {r}, canvases, out)
            ELSE CanvasCall([l EXCEPT !.fault = TRUE],
                            heap, refs, canvases, out)

\* ToPPM appending to what the writer already holds
CallToPPM_mut ==
    \E id \in 1..Len(canvases), arch \in Archs :
        CanvasCall([Call("ToPPM") EXCEPT !.cv = id,
                       !.again = (last.op = "ToPPM" /\ last.cv = id)],
                   heap, refs, canvases,
                   canvas_ToPPM(heap, canvases[id], out, arch))

\* ToPPM into an empty writer; again tells that the call before it was a
\* ToPPM of the same canvas
CallToPPM ==
    \E id \in 1..Len(canvases), arch \in Archs :
        CanvasCall([Call("ToPPM") EXCEPT !.cv = id,
                       !.again = (last.op = "ToPPM" /\ last.cv = id)],
                   heap, refs, canvases,
                   canvas_ToPPM(heap, canvases[id], <<>>, arch))

\* Width(), Height() and the length of Contents()
CallCanvasAccessor ==
    \E id \in 1..Len(canvases), f \in {"Width", "Height", "Contents"} :
        CanvasCall([Call(f) EXCEPT !.cv = id,
                       !.val = CASE f = "Width" -> F(canvas_Width(canvases[id]))
                                 [] f = "Height" -> F(canvas_Height(canvases[id]))
                                 [] f = "Contents" ->
                                        F(Len(canvas_Contents(canvases[id])))],
                   heap, refs, canvases, out)

----------------------------------------------------------------------------
(* Specifications: Spec is the vectors and points, SpecColor the colors,   *)
(* SpecCanvas the canvas with the colors it stores.                        *)

Next ==
    \/ CallNewVector
    \/ CallNewPoint
    \/ CallAddVector
    \/ CallSubVector
    \/ CallCross
    \/ CallScale
    \/ CallDiv
    \/ CallDot
    \/ CallMagnitude
    \/ CallNormalize
    \/ CallSubPoint
    \/ CallPointSubVector
    \/ CallAccessor

Spec == Init /\ [][Next]_vars

NextColor ==
    \/ CallNewColor
    \/ CallAddColor
    \/ CallSubColor
    \/ CallMulColor
    \/ CallColorScale
    \/ CallAccessor

SpecColor == InitColor /\ [][NextColor]_vars

\* the canvas is constructed first; its caller then works on it and on
\* the colors it holds
NextCanvas ==
    \/ canvases # <<>> /\ CallAddColor
    \/ canvases # <<>> /\ CallSubColor
    \/ canvases # <<>> /\ CallMulColor
    \/ canvases # <<>> /\ CallColorScale
    \/ CallNew
    \/ CallSet
    \/ CallGet
    \/ CallToPPM
    \/ CallCanvasAccessor

SpecCanvas == InitCanvas /\ [][NextCanvas]_vars

\* every operation on vectors, points and colors
NextTuple ==
    \/ CallNewVector
    \/ CallNewPoint
    \/ CallNewColor
    \/ CallAddVector
    \/ CallSubVector
    \/ CallCross
    \/ CallScale
    \/ CallDiv
    \/ CallDot
    \/ CallMagnitude
    \/ CallNormalize
    \/ CallSubPoint
    \/ CallPointSubVector
    \/ CallAddColor
    \/ CallSubColor
    \/ CallMulColor
    \/ CallColorScale
    \/ CallAccessor
    \/ CallColorToPPM

SpecTuple == InitTuple /\ [][NextTuple]_vars

\* the serialization of one color
NextPPM == CallColorToPPM

SpecPPM == InitPPM /\ [][NextPPM]_vars

TypeOK == fuel \in Nat


----------------------------------------------------------------------------
(* The claims.  In a state reached by a call, last.pre is the heap before  *)
(* the call, so PreRecv and PreArg are the operands as they were before    *)
(* it and Result is the returned value as it is after it.                  *)

PreRecv == last.pre[last.recv.addr]

PreArg == last.pre[last.arg.addr]

Result == heap[last.res.addr]

Zero3 == Tuple(F(0), F(0), F(0))

Neg3(t) == Tuple(FNeg(t.x), FNeg(t.y), FNeg(t.z))

Finite3(t) == IsFin(t.x) /\ IsFin(t.y) /\ IsFin(t.z)

InRange(c, x, y) == x < c.width /\ y < c.height

C2_SubPoint ==
    last.op = "SubPoint" =>
        /\ last.res.iface = "Vector"
        /\ Result = Tuple(FSub(PreRecv.x, PreArg.x),
                          FSub(PreRecv.y, PreArg.y),
                          FSub(PreRecv.z, PreArg.z))

\* SubPoint of two different points with three different differences
C2_Witness ==
    /\ last.op = "SubPoint"
    /\ last.recv.addr # last.arg.addr
    /\ Result # PreRecv
    /\ Result.y # Result.z

\* C3: p.SubVector(v) returns a Point whose components are p.x-v.x,
\* p.y-v.y, p.z-v.z of the values p and v had before the call.
C3_PointSubVector ==
    last.op = "PointSubVector" =>
        /\ last.res.iface = "Point"
        /\ Result = Tuple(FSub(PreRecv.x, PreArg.x),
                          FSub(PreRecv.y, PreArg.y),
                          FSub(PreRecv.z, PreArg.z))

\* a vector with a non-zero component has been subtracted from a point
C3_Witness ==
    /\ last.op = "PointSubVector"
    /\ PreArg # Zero3
    /\ Result # PreRecv

\* the part of C4 that holds whatever the operands are
C4_Componentwise ==
    /\ last.op = "AddVector" =>
          Result = Tuple(FAdd(PreRecv.x, PreArg.x),
                         FAdd(PreRecv.y, PreArg.y),
                         FAdd(PreRecv.z, PreArg.z))
    /\ last.op = "SubVector" =>
          Result = Tuple(FSub(PreRecv.x, PreArg.x),
                         FSub(PreRecv.y, PreArg.y),
                         FSub(PreRecv.z, PreArg.z))
    /\ last.op = "Scale" =>
          Result = Tuple(FMul(PreRecv.x, last.s),
                         FMul(PreRecv.y, last.s),
                         FMul(PreRecv.z, last.s))
    /\ last.op = "Div" /\ last.s # F(0) =>
          Result = Tuple(FDiv(PreRecv.x, last.s),
                         FDiv(PreRecv.y, last.s),
                         FDiv(PreRecv.z, last.s))
    /\ last.op = "AddVector" /\ last.recv.addr = last.arg.addr =>
          Result = Tuple(FMul(F(2), PreRecv.x),
                         FMul(F(2), PreRecv.y),
                         FMul(F(2), PreRecv.z))
    /\ last.op = "Scale" /\ last.s = F(-1) => Result = Neg3(PreRecv)

\* C4 as claimed: AddVector, SubVector, Scale and Div (by s # 0) are
\* component-wise on the operands as they were before the call, also when
\* both operands are one object: a.AddVector(a) doubles a, a.SubVector(a)
\* is the zero vector; Scale(-1) negates.
C4_VectorArithmetic_Claimed ==
    /\ C4_Componentwise
    /\ last.op = "SubVector" /\ last.recv.addr = last.arg.addr =>
          Result = Zero3

\* C4 as amended: the same, with a.SubVector(a) the zero vector when the
\* components of a are finite (Inf - Inf and NaN - NaN are NaN).
C4_VectorArithmetic ==
    /\ C4_Componentwise
    /\ last.op = "SubVector" /\ last.recv.addr = last.arg.addr
          /\ Finite3(PreRecv) =>
          Result = Zero3

\* a finite non-zero vector has been subtracted from itself
C4_Witness ==
    /\ last.op = "SubVector"
    /\ last.recv.addr = last.arg.addr
    /\ PreRecv # Zero3
    /\ Finite3(PreRecv)
    /\ Result = Zero3

\* C5: a.Cross(b) is (a.y*b.z - a.z*b.y, a.z*b.x - a.x*b.z,
\* a.x*b.y - a.y*b.x), and b.Cross(a) is its component-wise negation.
C5_Cross ==
    /\ last.op = "Cross" =>
          Result = Tuple(FSub(FMul(PreRecv.y, PreArg.z), FMul(PreRecv.z, PreArg.y)),
                         FSub(FMul(PreRecv.z, PreArg.x), FMul(PreRecv.x, PreArg.z)),
                         FSub(FMul(PreRecv.x, PreArg.y), FMul(PreRecv.y, PreArg.x)))
    /\ \A a \in Vectors, b \in Vectors :
          Small(a) /\ Small(b) =>
             LET ab == vector_Cross(heap, a, b)
                 ba == vector_Cross(heap, b, a)
             IN  ba.heap[ba.res.addr] = Neg3(ab.heap[ab.res.addr])

\* the cross product of two vectors that are not parallel
C5_Witness ==
    /\ last.op = "Cross"
    /\ last.recv.addr # last.arg.addr
    /\ Finite3(Result)
    /\ Result.x # F(0) /\ Result.y # F(0) /\ Result.z # F(0)

\* C6: a.Dot(b) is a.x*b.x + a.y*b.y + a.z*b.z, so a.Dot(b) = b.Dot(a)
\* and a.Dot(a) is never negative.
C6_Dot ==
    /\ last.op = "Dot" =>
          last.val = FAdd(FAdd(FMul(PreRecv.x, PreArg.x),
                               FMul(PreRecv.y, PreArg.y)),
                          FMul(PreRecv.z, PreArg.z))
    /\ \A a \in Vectors, b \in Vectors :
          Small(a) /\ Small(b) =>
             /\ vector_Dot(heap, a, b) = vector_Dot(heap, b, a)
             /\ ~FLt(vector_Dot(heap, a, a), F(0))

\* the dot product of two different vectors, one with a negative component
C6_Witness ==
    /\ last.op = "Dot"
    /\ last.recv.addr # last.arg.addr
    /\ PreRecv # PreArg
    /\ FLt(PreArg.y, F(0))
    /\ last.val # F(0)


\* C7: AddColor, SubColor, MulColor and Scale of a color are component-wise
\* on the operands as they were before the call and clamp nothing, so a
\* channel may become negative or exceed 1; Red, Green and Blue read the
\* stored values that X, Y and Z read.
C7_ColorArithmetic ==
    /\ last.op = "AddColor" =>
          Result = Tuple(FAdd(PreRecv.x, PreArg.x),
                         FAdd(PreRecv.y, PreArg.y),
                         FAdd(PreRecv.z, PreArg.z))
    /\ last.op = "SubColor" =>
          Result = Tuple(FSub(PreRecv.x, PreArg.x),
                         FSub(PreRecv.y, PreArg.y),
                         FSub(PreRecv.z, PreArg.z))
    /\ last.op = "MulColor" =>
          Result = Tuple(FMul(PreRecv.x, PreArg.x),
                         FMul(PreRecv.y, PreArg.y),
                         FMul(PreRecv.z, PreArg.z))
    /\ last.op = "ColorScale" =>
          Result = Tuple(FMul(PreRecv.x, last.s),
                         FMul(PreRecv.y, last.s),
                         FMul(PreRecv.z, last.s))
    /\ last.op = "Red" => last.val = PreRecv.x
    /\ last.op = "Green" => last.val = PreRecv.y
    /\ last.op = "Blue" => last.val = PreRecv.z
    /\ \A c \in Colors :
          /\ color_Red(heap[c.addr]) = X(heap, c)
          /\ color_Green(heap[c.addr]) = Y(heap, c)
          /\ color_Blue(heap[c.addr]) = Z(heap, c)

\* the Hadamard product of two different colors has left one channel
\* negative and one above 1
C7_Witness ==
    /\ last.op = "MulColor"
    /\ last.recv.addr # last.arg.addr
    /\ PreRecv # PreArg
    /\ \E f \in {"x", "y", "z"} : FLt(Result[f], F(0))
    /\ \E f \in {"x", "y", "z"} : FLt(F(1), Result[f])

\* C8: New(width, height) with no options returns a canvas of that width
\* and height whose width*height cells are all the color black.
C8_NewIsBlack ==
    last.op = "New" /\ last.opts = <<>> =>
        LET c == canvases[last.rcv]
        IN  /\ canvas_Width(c) = last.x
            /\ canvas_Height(c) = last.y
            /\ Len(canvas_Contents(c)) = last.x * last.y
            /\ \A i \in 1..Len(canvas_Contents(c)) :
                  /\ canvas_Contents(c)[i].dyn = "color"
                  /\ heap[canvas_Contents(c)[i].addr] = Zero3

\* a canvas of more than one row and column has been constructed with no
\* options
C8_Witness ==
    /\ last.op = "New"
    /\ last.opts = <<>>
    /\ last.x >= 2 /\ last.y >= 2
    /\ Len(canvases[last.rcv].contents) >= 4

\* C9: the length of Contents() is Width()*Height() in every state, after
\* construction with any options and any sequence of Set, Get and ToPPM,
\* and Width() and Height() stay what New was given.
C9_NeverResized ==
    /\ [](\A id \in DOMAIN canvases :
            Len(canvas_Contents(canvases[id]))
               = canvas_Width(canvases[id]) * canvas_Height(canvases[id]))
    /\ [](last.op = "New" =>
            /\ canvas_Width(canvases[last.rcv]) = last.x
            /\ canvas_Height(canvases[last.rcv]) = last.y)
    /\ [][\A id \in DOMAIN canvases :
            /\ canvas_Width(canvases'[id]) = canvas_Width(canvases[id])
            /\ canvas_Height(canvases'[id]) = canvas_Height(canvases[id])
            /\ Len(canvas_Contents(canvases'[id]))
                  = Len(canvas_Contents(canvases[id]))]_vars

\* a cell of a canvas constructed with a fill option, wider than high, has
\* been set
C9_Witness ==
    /\ last.op = "Set"
    /\ ~last.fault
    /\ canvases[last.cv].width = 2 /\ canvases[last.cv].height = 1
    /\ \E i \in 1..Len(last.preCv[last.cv].contents) :
          heap[last.preCv[last.cv].contents[i].addr] # Zero3

\* C10: for an in-range (x, y), after Set(x, y, v) Get(x, y) returns v until
\* the next Set at the same coordinate, and Set returns the canvas it was
\* called on.  Stated on the call after the Set: unless that call is a Set
\* at the same coordinate, Get(x, y) still returns v after it.
C10_SetThenGet ==
    /\ [](last.op = "Set" /\ InRange(canvases[last.cv], last.x, last.y) =>
            /\ ~last.fault
            /\ canvas_Get(canvases, last.cv, last.x, last.y) = last.arg
            /\ last.rcv = last.cv)
    /\ [][last.op = "Set" /\ InRange(canvases[last.cv], last.x, last.y)
            /\ ~(last'.op = "Set" /\ last'.cv = last.cv
                 /\ last'.x = last.x /\ last'.y = last.y)
            => canvas_Get(canvases', last.cv, last.x, last.y) = last.arg]_vars

\* a Set at a coordinate out of range has completed and replaced a cell
C10_Witness ==
    /\ last.op = "Set"
    /\ ~InRange(canvases[last.cv], last.x, last.y)
    /\ ~last.fault
    /\ canvases[last.cv].contents # last.preCv[last.cv].contents

\* C11: a Get or a Set at a coordinate out of range (x >= width or
\* y >= height) faults, and reads or modifies no cell.
C11_OutOfRangeFaults ==
    last.op \in {"Get", "Set"}
        /\ ~InRange(last.preCv[last.cv], last.x, last.y) =>
        /\ last.fault
        /\ last.res = NoRef
        /\ canvases = last.preCv

\* a Get at a coordinate out of range has completed and returned a cell
C11_Witness ==
    /\ last.op = "Get"
    /\ ~InRange(last.preCv[last.cv], last.x, last.y)
    /\ ~last.fault
    /\ last.res \in Colors

\* the text of the cells 0 .. n-1 in row-major order, cell i being the one
\* at (i % width, i \div width), each followed by the separator
RECURSIVE C12_Cells(_, _, _)
C12_Cells(id, n, arch) ==
    IF n = 0 THEN <<>>
    ELSE LET c == canvases[id]
             x == (n - 1) % c.width
             y == (n - 1) \div c.width
         IN  C12_Cells(id, n - 1, arch)
                \o color_ToPPM(heap, canvas_Get(canvases, id, x, y), <<>>, arch)
                \o c.separator

\* the header: "P3\n<width> <height>\n255\n" with the default header
\* function, the string of the configured function otherwise
C12_Header(c) ==
    IF c.header = "default"
    THEN <<"P", "3", "\n">> \o FmtNat(c.width) \o <<" ">> \o FmtNat(c.height)
            \o <<"\n", "2", "5", "5", "\n">>
    ELSE CallHeader(c.header, c)

\* C12: Canvas.ToPPM writes the header, then for each cell in row-major
\* order the cell's own ToPPM output followed by the separator, the last
\* cell included; the default header is "P3\n<width> <height>\n255\n" and
\* the default separator "\n".
C12_ToPPMFormat ==
    /\ last.op = "ToPPM" =>
          \E arch \in Archs :
              out = C12_Header(canvases[last.cv])
                       \o C12_Cells(last.cv, canvases[last.cv].width
                                                * canvases[last.cv].height, arch)
    /\ last.op = "New" /\ last.opts = <<>> =>
          /\ canvases[last.rcv].header = "default"
          /\ canvases[last.rcv].separator = <<"\n">>

\* a canvas of two or more cells that do not all serialize alike has been
\* written with the default header and separator
C12_Witness ==
    /\ last.op = "ToPPM"
    /\ canvases[last.cv].header = "default"
    /\ canvases[last.cv].separator = <<"\n">>
    /\ Len(canvases[last.cv].contents) >= 2
    /\ \E i, j \in 1..Len(canvases[last.cv].contents) :
          color_ToPPM(heap, canvases[last.cv].contents[i], <<>>, "amd64")
              # color_ToPPM(heap, canvases[last.cv].contents[j], <<>>, "amd64")
    /\ Len(out) > 0 /\ out[Len(out)] = "\n"

\* the fields of a text, split at every space
RECURSIVE C13_Fields(_)
C13_Fields(s) ==
    IF s = <<>> THEN << <<>> >>
    ELSE LET f == C13_Fields(SubSeq(s, 1, Len(s) - 1))
         IN  IF s[Len(s)] = " " THEN Append(f, <<>>)
             ELSE [f EXCEPT ![Len(f)] = Append(f[Len(f)], s[Len(s)])]

\* the texts the claim allows for a channel: "0" at or below 0, "255" at
\* or above 1, an integer nearest to 255 times the channel in between, and
\* an integer of 0 .. 255 in any case
C13_Allowed(ch) ==
    { FmtNat(k) : k \in
        { k \in 0..255 :
            IF IsNaN(ch) THEN TRUE
            ELSE IF IsInf(ch) THEN k = (IF ch.n > 0 THEN 255 ELSE 0)
            ELSE IF ch.n <= 0 THEN k = 0
            ELSE IF ch.n >= ch.d THEN k = 255
            ELSE 2 * Abs(255 * ch.n - k * ch.d) <= ch.d } }

C13_Written(ok) ==
    last.op = "ColorToPPM" /\ ok =>
        LET f == C13_Fields(out)
            c == heap[last.recv.addr]
        IN  /\ Len(f) = 3
            /\ f[1] \in C13_Allowed(color_Red(c))
            /\ f[2] \in C13_Allowed(color_Green(c))
            /\ f[3] \in C13_Allowed(color_Blue(c))

\* C13: for every color, Color.ToPPM writes three integers separated by
\* single spaces and nothing else, each the channel clamped to [0, 1],
\* scaled to [0, 255] and rounded to the nearest integer: an integer of
\* 0 .. 255, 0 for a channel <= 0 and 255 for a channel >= 1.
C13_ColorToPPM == C13_Written(TRUE)

\* the same for the colors that have no NaN channel
C13_ColorToPPM_NoNaN ==
    C13_Written(~IsNaN(heap[last.recv.addr].x) /\ ~IsNaN(heap[last.recv.addr].y)
                    /\ ~IsNaN(heap[last.recv.addr].z))

\* a color with a NaN channel has been written with a number below 0
C13_Witness ==
    /\ last.op = "ColorToPPM"
    /\ IsNaN(color_Red(heap[last.recv.addr]))
    /\ out[1] = "-"

C15_CallsOf(f) == SelectSeq(last.fills, LAMBDA e : e.f = f)

\* C15: New(width, height, WithFillFunc(f)) calls f exactly once per cell,
\* with the cell's (x, y), in row-major order, and afterwards Get(x, y)
\* returns what f returned for (x, y), for every (x, y) in range.
C15_FillOncePerCell ==
    last.op = "New" /\ Len(last.opts) = 1 /\ last.opts[1].kind = "fill" =>
        LET c == canvases[last.rcv]
            calls == C15_CallsOf(last.opts[1].fill)
        IN  /\ Len(calls) = c.width * c.height
            /\ \A y \in 0..(c.height - 1) : \A x \in 0..(c.width - 1) :
                  LET e == calls[1 + x + y * c.width]
                  IN  /\ e.x = x
                      /\ e.y = y
                      /\ canvas_Get(canvases, last.rcv, x, y) = e.res

\* a canvas with more than one row and more than one column has been
\* constructed with one fill function that returns a new color per cell
C15_Witness ==
    /\ last.op = "New"
    /\ last.opts = << WithFillFunc(FillFunc("coord", NoRef)) >>
    /\ canvases[last.rcv].width >= 2
    /\ canvases[last.rcv].height >= 2
    /\ Len(C15_CallsOf(last.opts[1].fill)) = 4
    /\ heap[canvas_Get(canvases, last.rcv, 1, 0).addr] = Tuple(F(1), F(0), F(0))

\* the options of one kind among the default options followed by the
\* options passed to the last New, in that order
C16_OfKind(kind) ==
    SelectSeq(defaultOptions \o last.opts, LAMBDA o : o.kind = kind)

\* C16: New applies the default options (black fill, P3 header, newline
\* separator) first and then the caller's options in argument order: the
\* fill functions run in that order, each over all cells, and the header,
\* the separator and every cell are those of the last option of their
\* kind, the caller's if the caller gave one.
C16_OptionOrder ==
    last.op = "New" =>
        LET c == canvases[last.rcv]
            n == c.width * c.height
            fs == C16_OfKind("fill")
            hs == C16_OfKind("header")
            ss == C16_OfKind("sep")
        IN  /\ fs[1].fill = FillFunc("black", NoRef)
            /\ hs[1].header = "default"
            /\ ss[1].sep = <<"\n">>
            /\ c.header = hs[Len(hs)].header
            /\ c.separator = ss[Len(ss)].sep
            /\ Len(last.fills) = Len(fs) * n
            /\ \A j \in 1..Len(fs) : \A i \in 1..n :
                  last.fills[(j - 1) * n + i].f = fs[j].fill
            /\ \A i \in 1..n :
                  c.contents[i] = last.fills[(Len(fs) - 1) * n + i].res

\* New has been given two fill functions that differ, and every cell of
\* the canvas is the color the second one returns
C16_Witness ==
    /\ last.op = "New"
    /\ Len(last.opts) = 2
    /\ last.opts[1].kind = last.opts[2].kind
    /\ last.opts[1] # last.opts[2]
    /\ last.opts[1].kind = "fill"
    /\ Len(canvases[last.rcv].contents) >= 2
    /\ \A i \in 1..Len(canvases[last.rcv].contents) :
          canvases[last.rcv].contents[i] = last.opts[2].fill.ref

\* every component is an infinity or NaN
NonFinite3(t) == ~IsFin(t.x) /\ ~IsFin(t.y) /\ ~IsFin(t.z)

\* C17: Div(0) on any vector and Normalize on the zero vector complete
\* with no fault and return a Vector whose components are infinities or
\* NaN.
C17_NoErrorOutcome ==
    \/ last.op = "Div" /\ last.s = F(0)
    \/ last.op = "Normalize" /\ PreRecv = Zero3
    =>
        /\ ~last.fault
        /\ last.res \in Vectors
        /\ NonFinite3(Result)

\* the zero vector has been normalized
C17_Witness ==
    /\ last.op = "Normalize"
    /\ PreRecv = Zero3
    /\ Result = Tuple(NaN, NaN, NaN)

\* what C18 says of the Normalize just made on the vector PreRecv: the
\* result is PreRecv divided by sqrt(Dot(PreRecv, PreRecv)), the magnitude
\* it had before the call, and the Magnitude of the result is within
\* Epsilon of 1.  The Magnitude of the result is looked at where the
\* magnitude before the call is the exact root of the Dot, the square
\* roots that are not rational being rounded to a grid far coarser than
\* Epsilon.
C18_Normalized ==
    LET m == vector_Magnitude(last.pre, last.recv)
        d == vector_Dot(last.pre, last.recv, last.recv)
    IN  /\ m = FSqrt(d)
        /\ Result = Tuple(FDiv(PreRecv.x, m), FDiv(PreRecv.y, m),
                          FDiv(PreRecv.z, m))
        /\ last.res.addr = last.recv.addr
        /\ Small(last.res) /\ FMul(m, m) = d =>
              /\ Equals(Epsilon, F(1), vector_Magnitude(heap, last.res))
              /\ vector_Dot(heap, last.res, last.res) = F(1)

InPlaceOps ==
    { "AddVector", "SubVector", "Scale", "Div", "Normalize", "SubPoint",
      "PointSubVector", "AddColor", "SubColor", "MulColor", "ColorScale" }

\* the handles r and q read the same x, y and z
SameReading(r, q) ==
    /\ X(heap, r) = X(heap, q)
    /\ Y(heap, r) = Y(heap, q)
    /\ Z(heap, r) = Z(heap, q)

\* C19: every in-place operation returns a handle to the storage of its
\* receiver: after the call the receiver read through its own handle has
\* the x, y, z of the returned value, and after a later in-place operation
\* through one handle of a storage every other handle of it reads the new
\* values; the Vector returned by SubPoint is on the storage of the left
\* Point.
C19_SameStorage ==
    last.op \in InPlaceOps =>
        /\ last.res.addr = last.recv.addr
        /\ SameReading(last.recv, last.res)
        /\ \A r \in refs : r.addr = last.recv.addr => SameReading(r, last.res)
        /\ last.op = "SubPoint" =>
              last.recv \in Points /\ last.res \in Vectors

\* an in-place operation through the Vector that SubPoint returned has
\* changed what the left Point of that SubPoint reads
C19_Witness ==
    /\ last.op \in {"AddVector", "Scale"}
    /\ heap # last.pre
    /\ \E p \in Points :
          /\ p.addr = last.recv.addr
          /\ SameReading(p, last.res)
          /\ heap[p.addr] # last.pre[p.addr]

\* the operations with a right operand that work in place
BinaryInPlaceOps ==
    { "AddVector", "SubVector", "SubPoint", "PointSubVector", "AddColor",
      "SubColor", "MulColor" }

\* the operations that only read
ReadOnlyOps ==
    { "Dot", "Magnitude", "X", "Y", "Z", "W", "Red", "Green", "Blue",
      "ColorToPPM" }

C21_Coords(c) == (0..(c.width - 1)) \X (0..(c.height - 1))

\* C21: for the coordinates in range the index x + y*width is one-to-one
\* and lies in 0 .. width*height - 1; a Set(x, y, v) in range changes the
\* cell at (x, y) to v and leaves every other cell in range, the width,
\* the height, the header function, the separator and every color as
\* they were; a Get changes nothing.
C21_SetFrame ==
    /\ \A id \in 1..Len(canvases) :
          LET c == canvases[id]
          IN  \A p \in C21_Coords(c) :
                  /\ canvas_index(c, p[1], p[2]) \in 0..(c.width * c.height - 1)
                  /\ \A q \in C21_Coords(c) :
                        canvas_index(c, p[1], p[2]) = canvas_index(c, q[1], q[2])
                            => p = q
    /\ last.op = "Set" /\ InRange(last.preCv[last.cv], last.x, last.y) =>
          LET c == canvases[last.cv]
              b == last.preCv[last.cv]
          IN  /\ ~last.fault
              /\ canvas_Get(canvases, last.cv, last.x, last.y) = last.arg
              /\ \A p \in C21_Coords(b) :
                    p # <<last.x, last.y>> =>
                        canvas_Get(canvases, last.cv, p[1], p[2])
                            = canvas_Get(last.preCv, last.cv, p[1], p[2])
              /\ c.width = b.width
              /\ c.height = b.height
              /\ c.header = b.header
              /\ c.separator = b.separator
              /\ Len(c.contents) = Len(b.contents)
              /\ \A id \in 1..Len(canvases) :
                    id # last.cv => canvases[id] = last.preCv[id]
              /\ Len(canvases) = Len(last.preCv)
              /\ heap = last.pre
    /\ last.op = "Get" =>
          /\ canvases = last.preCv
          /\ heap = last.pre

\* a Set in range on a canvas of two rows and two columns has replaced
\* the cell at (1, 1) and no other
C21_Witness ==
    /\ last.op = "Set"
    /\ last.x = 1 /\ last.y = 1
    /\ canvases[last.cv].width = 2 /\ canvases[last.cv].height = 2
    /\ canvas_Get(canvases, last.cv, 1, 1) = last.arg
    /\ canvas_Get(last.preCv, last.cv, 1, 1) # last.arg
    /\ \A i \in 1..3 :
          canvases[last.cv].contents[i] = last.preCv[last.cv].contents[i]

\* the in-place operations on a color
ColorInPlaceOps == { "AddColor", "SubColor", "MulColor", "ColorScale" }

\* the coordinates in range of canvas id whose cell is on the storage of
\* the handle r
C22_CellsOn(id, r) ==
    { p \in C21_Coords(canvases[id]) :
        canvas_Get(canvases, id, p[1], p[2]).addr = r.addr }

\* C22: the canvas stores its cells by reference: after Set(x, y, c),
\* Get(x, y) is c itself, so an in-place operation on c changes what every
\* cell that holds c reads (and ToPPM writes) and no other cell; the cells
\* of the default fill are newly allocated and pairwise distinct, so an
\* in-place operation on one of them changes no other cell.
C22_ByReference ==
    /\ last.op = "Set" /\ InRange(last.preCv[last.cv], last.x, last.y) =>
          /\ canvas_Get(canvases, last.cv, last.x, last.y) = last.arg
          /\ canvas_Get(canvases, last.cv, last.x, last.y).addr = last.arg.addr
    /\ last.op \in ColorInPlaceOps =>
          \A id \in 1..Len(canvases) : \A p \in C21_Coords(canvases[id]) :
              LET cell == canvas_Get(canvases, id, p[1], p[2])
              IN  /\ p \in C22_CellsOn(id, last.recv) =>
                        /\ heap[cell.addr] = Result
                        /\ \A arch \in Archs :
                              color_ToPPM(heap, cell, <<>>, arch)
                                  = color_ToPPM(heap, last.res, <<>>, arch)
                  /\ p \notin C22_CellsOn(id, last.recv) =>
                        heap[cell.addr] = last.pre[cell.addr]
    /\ last.op = "New" /\ C16_OfKind("fill") = << defaultOptions[1] >> =>
          LET c == canvases[last.rcv]
          IN  \A i \in 1..Len(c.contents) :
                  /\ c.contents[i].addr > Len(last.pre)
                  /\ \A j \in 1..Len(c.contents) :
                        c.contents[i].addr = c.contents[j].addr => i = j

\* an in-place operation on a color held by two or more cells of a canvas
\* has changed the color, and with it what ToPPM writes for the canvas
C22_Witness ==
    /\ last.op \in ColorInPlaceOps
    /\ \E id \in 1..Len(canvases) :
          /\ Cardinality(C22_CellsOn(id, last.recv)) >= 2
          /\ heap[last.recv.addr] # last.pre[last.recv.addr]
          /\ canvas_ToPPM(heap, canvases[id], <<>>, "amd64")
                # canvas_ToPPM(last.pre, canvases[id], <<>>, "amd64")

\* an in-place operation on the color that Get returned from a canvas of
\* the default fill has changed that cell and no other
C22_WitnessFresh ==
    /\ last.op = "AddColor"
    /\ \E id \in 1..Len(canvases) :
          /\ Len(canvases[id].contents) >= 2
          /\ Cardinality(C22_CellsOn(id, last.recv)) = 1
          /\ last.pre[last.recv.addr] = Zero3
          /\ heap[last.recv.addr] # Zero3
          /\ \A p \in C21_Coords(canvases[id]) \ C22_CellsOn(id, last.recv) :
                heap[canvas_Get(canvases, id, p[1], p[2]).addr] = Zero3

====
